---- MODULE Spec2Model ----
(***************************************************************************)
(* QrScannerComponent (src/unnamed/part_000): the scanning-session         *)
(* controller.  The component's fields, the video element's srcObject, the *)
(* streams and decode loops that decodeFromConstraints creates, and the    *)
(* asynchronous completions (acquisition, decode callbacks, torch          *)
(* constraint, device refresh, visibility events) are the state machine.   *)
(*                                                                         *)
(* The decoder and the media APIs are external.  They are modelled by the  *)
(* contract the component relies on: an acquisition stays pending until it *)
(* resolves (the stream is open and attached to the video element, the     *)
(* loop is attached) or rejects; an attached loop invokes the callback     *)
(* any number of times until its controls.stop() is called; a track is     *)
(* live until stop() is called on it.                                      *)
(***************************************************************************)
EXTENDS Integers, Sequences, FiniteSets, TLC

\* ------------------------------------------------------------------ bounds

\* startScan calls in one run (each creates one acquisition / stream / loop).
MaxStarts == 2
\* Scheduled device refreshes in flight at once (further ones are dropped).
MaxRefresh == 1
\* applyConstraints calls on a real track in flight at once.
MaxTorchPending == 1
\* The stop() counters saturate here ("more than once").
MaxCount == 2

Sessions == 1..MaxStarts

\* ------------------------------------------------------------- vocabulary

\* undefined / null of the source.
NULL == "null"

\* Decoded payloads, as sequences of characters (" " is whitespace): one
\* with whitespace on both sides, one of whitespace only, one with none.
Payloads == {<<" ", "q", " ">>, <<" ">>, <<"q">>}

\* The names mapError tells apart.
ClassifiedNames ==
    {"NotAllowedError", "NotFoundError", "NotReadableError",
     "OverconstrainedError", "SecurityError"}
\* The errors raised in the runs explored: two classified ones and a
\* transient decode failure, which mapError does not know.
ErrorNames == {"NotAllowedError", "NotFoundError", "NotFoundException"}

\* The user-visible messages (the source's Arabic texts, by meaning).
MsgNotAllowed == "camera permission denied"
MsgNotFound == "no camera available"
MsgNotReadable == "camera could not be opened"
MsgOverconstrained == "camera constraints unsupported"
MsgSecurity == "camera access refused for security reasons"
MsgStartFailed == "scan start failed"
MsgDevices == "camera devices not accessible"

\* The ids onDeviceChange is called with ("" selects no device).
DeviceIds == {"", "cam-2"}
\* Outcomes of listVideoInputDevices.
PrimaryLists == {<<>>, <<"cam-1", "cam-2">>}
\* Outcomes of enumerateDevices: devices of every kind.
AllDeviceLists ==
    {<<[kind |-> "audioinput", deviceId |-> "mic-1"],
       [kind |-> "videoinput", deviceId |-> ""]>>}

\* -------------------------------------------------------------- variables

VARIABLES
    \* fields of the component
    scanning, resultText, errorMsg, hasTorch, torchOn,
    controls, stream, devices, selectedDeviceId,
    \* the document and the video element
    srcObject, hidden, subscribed,
    \* acquisitions, loops and tracks
    acq, ctlStops, trackStops, torchCap, torchPending,
    \* device refreshes and the component's lifecycle
    refreshListing, refreshFallback, initPc, destroyed,
    \* history
    lastCall, lastEvent

sessVars == <<scanning, resultText, errorMsg, hasTorch, torchOn,
              controls, stream, srcObject, ctlStops, trackStops>>
devVars == <<devices, selectedDeviceId>>
refVars == <<refreshListing, refreshFallback>>
vars == <<scanning, resultText, errorMsg, hasTorch, torchOn,
          controls, stream, devices, selectedDeviceId,
          srcObject, hidden, subscribed,
          acq, ctlStops, trackStops, torchCap, torchPending,
          refreshListing, refreshFallback, initPc, destroyed,
          lastCall, lastEvent>>

\* --------------------------------------------------------- pure functions

IsWs(c) == c = " "

RECURSIVE TrimStart(_)
TrimStart(t) ==
    IF t = <<>> THEN t
    ELSE IF IsWs(Head(t)) THEN TrimStart(Tail(t)) ELSE t

RECURSIVE TrimEnd(_)
TrimEnd(t) ==
    IF t = <<>> THEN t
    ELSE IF IsWs(t[Len(t)]) THEN TrimEnd(SubSeq(t, 1, Len(t) - 1)) ELSE t

\* String.prototype.trim
Trim(t) == TrimEnd(TrimStart(t))

\* mapError with a default that reports the error.
mapErrorReportsAll(name) ==
    CASE name = "NotAllowedError" -> MsgNotAllowed
      [] name = "NotFoundError" -> MsgNotFound
      [] name = "NotReadableError" -> MsgNotReadable
      [] name = "OverconstrainedError" -> MsgOverconstrained
      [] name = "SecurityError" -> MsgSecurity
      [] OTHER -> MsgStartFailed

mapError(name) ==
    CASE name = "NotAllowedError" -> MsgNotAllowed
      [] name = "NotFoundError" -> MsgNotFound
      [] name = "NotReadableError" -> MsgNotReadable
      [] name = "OverconstrainedError" -> MsgOverconstrained
      [] name = "SecurityError" -> MsgSecurity
      [] OTHER -> NULL

Bump(n) == IF n < MaxCount THEN n + 1 ELSE n

\* --------------------------------------------- the handlers, on a snapshot

\* The part of the state the synchronous helpers read and write.
Cur ==
    [scanning |-> scanning, resultText |-> resultText, errorMsg |-> errorMsg,
     hasTorch |-> hasTorch, torchOn |-> torchOn, controls |-> controls,
     stream |-> stream, srcObject |-> srcObject,
     ctlStops |-> ctlStops, trackStops |-> trackStops]

Set(s) ==
    /\ scanning' = s.scanning
    /\ resultText' = s.resultText
    /\ errorMsg' = s.errorMsg
    /\ hasTorch' = s.hasTorch
    /\ torchOn' = s.torchOn
    /\ controls' = s.controls
    /\ stream' = s.stream
    /\ srcObject' = s.srcObject
    /\ ctlStops' = s.ctlStops
    /\ trackStops' = s.trackStops

\* stopTracks without its last statement (this.stream = undefined).
stopTracksKeepsStream(s) ==
    LET t == IF s.srcObject # 0 THEN s.srcObject ELSE s.stream
    IN  [s EXCEPT !.trackStops = IF t # 0 THEN [@ EXCEPT ![t] = Bump(@)] ELSE @,
                  !.srcObject = 0]

stopTracks(s) ==
    LET t == IF s.srcObject # 0 THEN s.srcObject ELSE s.stream
    IN  [s EXCEPT !.trackStops = IF t # 0 THEN [@ EXCEPT ![t] = Bump(@)] ELSE @,
                  !.srcObject = 0,
                  !.stream = 0]

detectTorchSupport(s) ==
    [s EXCEPT !.hasTorch = IF s.stream # 0 THEN torchCap[s.stream] ELSE FALSE]

stopScan(s) ==
    LET a == [s EXCEPT !.ctlStops =
                  IF s.controls # 0 THEN [@ EXCEPT ![s.controls] = Bump(@)] ELSE @,
                       !.controls = 0]
        b == stopTracks(a)
    IN  [b EXCEPT !.scanning = FALSE, !.torchOn = FALSE]

setError(s, msg) ==
    stopTracks([s EXCEPT !.errorMsg = msg, !.scanning = FALSE])

\* ------------------------------------------------------------------- init

Init ==
    /\ scanning = FALSE
    /\ resultText = <<>>
    /\ errorMsg = NULL
    /\ hasTorch = FALSE
    /\ torchOn = FALSE
    /\ controls = 0
    /\ stream = 0
    /\ devices = <<>>
    /\ selectedDeviceId = NULL
    /\ srcObject = 0
    /\ hidden = FALSE
    /\ subscribed = FALSE
    /\ acq = [i \in Sessions |-> "none"]
    /\ ctlStops = [i \in Sessions |-> 0]
    /\ trackStops = [i \in Sessions |-> 0]
    /\ torchCap = [i \in Sessions |-> FALSE]
    /\ torchPending = 0
    /\ refreshListing = 0
    /\ refreshFallback = 0
    /\ initPc = "new"
    /\ destroyed = FALSE
    /\ lastCall = "none"
    /\ lastEvent = "other"

\* ---------------------------------------------------------------- actions

\* The user acts on the template once the view is initialised (the device
\* list is there), while the component lives and the document is visible.
UiReady == initPc = "done" /\ ~destroyed /\ ~hidden

Started == {i \in Sessions : acq[i] # "none"}

\* setTimeout(() => this.refreshDevices(), ...): one more refresh in flight.
Schedule ==
    IF refreshListing + refreshFallback < MaxRefresh
    THEN refreshListing + 1 ELSE refreshListing

startScan(s) ==
    [s EXCEPT !.scanning = TRUE, !.errorMsg = NULL, !.resultText = <<>>,
              !.torchOn = FALSE, !.hasTorch = FALSE]

StartScan ==
    /\ UiReady
    /\ Cardinality(Started) < MaxStarts
    /\ Set(startScan(Cur))
    /\ acq' = [acq EXCEPT ![Cardinality(Started) + 1] = "pending"]
    /\ refreshListing' = Schedule
    /\ lastCall' = IF lastCall \in {"stopScan", "hiddenStop"}
                   THEN "startAfterStop" ELSE "startScan"
    /\ lastEvent' = "other"
    /\ UNCHANGED <<devVars, hidden, subscribed, torchCap, torchPending,
                   refreshFallback, initPc, destroyed>>

\* decodeFromConstraints: the stream is open and attached to the video
\* element, the decode loop is attached.
AcquireOk(i, cap) ==
    /\ acq[i] = "pending"
    /\ acq' = [acq EXCEPT ![i] = "open"]
    /\ torchCap' = [torchCap EXCEPT ![i] = cap]
    /\ srcObject' = i
    /\ lastEvent' = "other"
    /\ UNCHANGED <<scanning, resultText, errorMsg, hasTorch, torchOn, controls,
                   stream, ctlStops, trackStops, devVars, hidden, subscribed,
                   torchPending, refVars, initPc, destroyed, lastCall>>

\* The catch without its fallback message (|| generic start failure).
AcquireFailNoFallbackMessage(i, name) ==
    /\ acq[i] = "pending"
    /\ acq' = [acq EXCEPT ![i] = "failed"]
    /\ Set([setError(Cur, mapError(name)) EXCEPT !.scanning = FALSE])
    /\ lastEvent' = "other"
    /\ UNCHANGED <<devVars, hidden, subscribed, torchCap, torchPending,
                   refVars, initPc, destroyed, lastCall>>

\* The catch of decodeFromConstraints' promise.
AcquireFail(i, name) ==
    /\ acq[i] = "pending"
    /\ acq' = [acq EXCEPT ![i] = "failed"]
    /\ LET m == mapError(name)
           s == setError(Cur, IF m # NULL THEN m ELSE MsgStartFailed)
       IN  Set([s EXCEPT !.scanning = FALSE])
    /\ lastEvent' = "other"
    /\ UNCHANGED <<devVars, hidden, subscribed, torchCap, torchPending,
                   refVars, initPc, destroyed, lastCall>>

LoopLive(i) == acq[i] = "open" /\ ctlStops[i] = 0

\* The first statements of every callback invocation.
onCallback(s, i) ==
    LET a == [s EXCEPT !.controls = IF @ = 0 THEN i ELSE @]
        b == [a EXCEPT !.stream = IF a.srcObject # 0 THEN a.srcObject ELSE @]
    IN  detectTorchSupport(b)

onResult(s, i, payload) ==
    stopScan([onCallback(s, i) EXCEPT !.resultText = Trim(payload)])

onError(s, i, name) ==
    LET c == onCallback(s, i)
        m == mapError(name)
    IN  IF m # NULL THEN setError(c, m) ELSE c

DecodeResult(i, payload) ==
    /\ LoopLive(i)
    /\ Set(onResult(Cur, i, payload))
    /\ lastCall' = "stopScan"
    /\ lastEvent' = "terminal"
    /\ UNCHANGED <<devVars, hidden, subscribed, acq, torchCap, torchPending,
                   refVars, initPc, destroyed>>

DecodeError(i, name) ==
    /\ LoopLive(i)
    /\ Set(onError(Cur, i, name))
    /\ lastEvent' = IF mapError(name) # NULL THEN "terminal"
                    ELSE IF scanning THEN "transient" ELSE "other"
    /\ UNCHANGED <<devVars, hidden, subscribed, acq, torchCap, torchPending,
                   refVars, initPc, destroyed, lastCall>>

StopScan ==
    /\ UiReady
    /\ Set(stopScan(Cur))
    /\ lastCall' = "stopScan"
    /\ lastEvent' = "other"
    /\ UNCHANGED <<devVars, hidden, subscribed, acq, torchCap, torchPending,
                   refVars, initPc, destroyed>>

OnDeviceChange(id) ==
    /\ UiReady
    /\ selectedDeviceId' = IF id # "" THEN id ELSE NULL
    /\ IF scanning
       THEN Set(stopScan(Cur)) /\ lastCall' = "stopScan"
       ELSE UNCHANGED <<sessVars, lastCall>>
    /\ lastEvent' = "other"
    /\ UNCHANGED <<devices, hidden, subscribed, acq, torchCap, torchPending,
                   refVars, initPc, destroyed>>

\* toggleTorch without its first statement (if (!this.hasTorch) return).
ToggleTorchUnguarded ==
    /\ UiReady
    /\ torchOn' = ~torchOn
    /\ torchPending' = IF stream # 0 /\ torchPending < MaxTorchPending
                       THEN torchPending + 1 ELSE torchPending
    /\ lastEvent' = "other"
    /\ UNCHANGED <<scanning, resultText, errorMsg, hasTorch, controls, stream,
                   srcObject, ctlStops, trackStops, devVars, hidden, subscribed,
                   acq, torchCap, refVars, initPc, destroyed, lastCall>>

\* toggleTorch up to its await.  With no track the awaited value is
\* undefined and the continuation changes nothing.
ToggleTorch ==
    /\ UiReady
    /\ IF hasTorch
       THEN /\ torchOn' = ~torchOn
            /\ torchPending' = IF stream # 0 /\ torchPending < MaxTorchPending
                               THEN torchPending + 1 ELSE torchPending
       ELSE UNCHANGED <<torchOn, torchPending>>
    /\ lastEvent' = "other"
    /\ UNCHANGED <<scanning, resultText, errorMsg, hasTorch, controls, stream,
                   srcObject, ctlStops, trackStops, devVars, hidden, subscribed,
                   acq, torchCap, refVars, initPc, destroyed, lastCall>>

\* applyConstraints resolved.
TorchApplyOk ==
    /\ torchPending > 0
    /\ torchPending' = torchPending - 1
    /\ lastEvent' = "other"
    /\ UNCHANGED <<sessVars, devVars, hidden, subscribed, acq, torchCap,
                   refVars, initPc, destroyed, lastCall>>

\* applyConstraints rejected: the catch of toggleTorch.
TorchApplyFail ==
    /\ torchPending > 0
    /\ torchPending' = torchPending - 1
    /\ torchOn' = FALSE
    /\ hasTorch' = FALSE
    /\ lastEvent' = "other"
    /\ UNCHANGED <<scanning, resultText, errorMsg, controls, stream,
                   srcObject, ctlStops, trackStops, devVars, hidden, subscribed,
                   acq, torchCap, refVars, initPc, destroyed, lastCall>>

\* A visibilitychange event; handleVisibility runs if it is subscribed.
VisibilityChange ==
    /\ hidden' = ~hidden
    /\ IF subscribed /\ ~hidden /\ scanning
       THEN Set(stopScan(Cur)) /\ lastCall' = "hiddenStop"
       ELSE UNCHANGED <<sessVars, lastCall>>
    /\ lastEvent' = "other"
    /\ UNCHANGED <<devVars, subscribed, acq, torchCap, torchPending,
                   refVars, initPc, destroyed>>

\* ------------------------------------------------- device refresh, lifecycle

IsVideoInput(d) == d.kind = "videoinput"

\* all.filter(d => d.kind === 'videoinput'), as the list of ids.
VideoInputs(all) ==
    LET f == SelectSeq(all, IsVideoInput)
    IN  [k \in 1..Len(f) |-> f[k].deviceId]

\* first?.deviceId || undefined
FirstId(list) ==
    IF list # <<>> /\ list[1] # "" THEN list[1] ELSE NULL

\* refreshDevices returns, from its first await or from its second: the
\* call ngAfterViewInit awaits is followed by addEventListener, a scheduled
\* one just ends.
RefreshEnds(init, inFallback) ==
    IF init
    THEN /\ initPc' = "done"
         /\ subscribed' = TRUE
         /\ UNCHANGED refVars
    ELSE /\ refreshListing' = IF inFallback THEN refreshListing
                              ELSE refreshListing - 1
         /\ refreshFallback' = IF inFallback THEN refreshFallback - 1
                               ELSE refreshFallback
         /\ UNCHANGED <<initPc, subscribed>>

InListing(init) == IF init THEN initPc = "listing" ELSE refreshListing > 0
InFallback(init) == IF init THEN initPc = "fallback" ELSE refreshFallback > 0

\* listVideoInputDevices resolved with a list that is used as it is.
RefreshListed(init, list, fallbackAvailable) ==
    /\ InListing(init)
    /\ ~(list = <<>> /\ fallbackAvailable)
    /\ devices' = list
    /\ selectedDeviceId' = FirstId(list)
    /\ RefreshEnds(init, FALSE)
    /\ lastEvent' = "other"
    /\ UNCHANGED <<sessVars, hidden, acq, torchCap, torchPending, destroyed, lastCall>>

\* listVideoInputDevices resolved with nothing: enumerateDevices is awaited.
RefreshToFallback(init) ==
    /\ InListing(init)
    /\ devices' = <<>>
    /\ IF init
       THEN initPc' = "fallback" /\ UNCHANGED refVars
       ELSE /\ refreshListing' = refreshListing - 1
            /\ refreshFallback' = refreshFallback + 1
            /\ UNCHANGED initPc
    /\ lastEvent' = "other"
    /\ UNCHANGED <<sessVars, selectedDeviceId, hidden, subscribed, acq, torchCap,
                   torchPending, destroyed, lastCall>>

\* enumerateDevices resolved.
RefreshFallbackListed(init, all) ==
    /\ InFallback(init)
    /\ devices' = VideoInputs(all)
    /\ selectedDeviceId' = FirstId(VideoInputs(all))
    /\ RefreshEnds(init, TRUE)
    /\ lastEvent' = "other"
    /\ UNCHANGED <<sessVars, hidden, acq, torchCap, torchPending, destroyed, lastCall>>

\* Either await of refreshDevices rejected: its catch.
RefreshFail(init, inFallback) ==
    /\ IF inFallback THEN InFallback(init) ELSE InListing(init)
    /\ Set(setError(Cur, MsgDevices))
    /\ RefreshEnds(init, inFallback)
    /\ lastEvent' = "other"
    /\ UNCHANGED <<devVars, hidden, acq, torchCap, torchPending, destroyed, lastCall>>

\* warmUpPermission: its stream is closed at once; the refresh is scheduled.
WarmUpPermission ==
    /\ UiReady
    /\ refreshListing' = Schedule
    /\ lastEvent' = "other"
    /\ UNCHANGED <<sessVars, devVars, hidden, subscribed, acq, torchCap,
                   torchPending, refreshFallback, initPc, destroyed, lastCall>>

\* ngAfterViewInit up to its await.
NgAfterViewInit ==
    /\ initPc = "new"
    /\ initPc' = "listing"
    /\ lastEvent' = "other"
    /\ UNCHANGED <<sessVars, devVars, hidden, subscribed, acq, torchCap,
                   torchPending, refVars, destroyed, lastCall>>

NgOnDestroy ==
    /\ initPc # "new"
    /\ ~destroyed
    /\ subscribed' = FALSE
    /\ Set(stopScan(Cur))
    /\ destroyed' = TRUE
    /\ lastCall' = "stopScan"
    /\ lastEvent' = "other"
    /\ UNCHANGED <<devVars, hidden, acq, torchCap, torchPending, refVars,
                   initPc>>

\* ------------------------------------------------------------ specification

Next ==
    \/ NgAfterViewInit
    \/ StartScan
    \/ StopScan
    \/ \E i \in Sessions, cap \in BOOLEAN : AcquireOk(i, cap)
    \/ \E i \in Sessions, name \in ErrorNames : AcquireFail(i, name)
    \/ \E i \in Sessions, payload \in Payloads : DecodeResult(i, payload)
    \/ \E i \in Sessions, name \in ErrorNames : DecodeError(i, name)
    \/ \E id \in DeviceIds : OnDeviceChange(id)
    \/ ToggleTorch
    \/ TorchApplyOk
    \/ TorchApplyFail
    \/ VisibilityChange
    \/ WarmUpPermission
    \/ \E init \in BOOLEAN, list \in PrimaryLists, fb \in BOOLEAN :
           RefreshListed(init, list, fb)
    \/ \E init \in BOOLEAN : RefreshToFallback(init)
    \/ \E init \in BOOLEAN, all \in AllDeviceLists : RefreshFallbackListed(init, all)
    \/ \E init \in BOOLEAN, inFallback \in BOOLEAN : RefreshFail(init, inFallback)
    \/ NgOnDestroy

Spec == Init /\ [][Next]_vars

\* The session on its own: the view is initialised (the first listing found
\* no device), and only startScan, stopScan, toggleTorch and the completions
\* that reach the session state occur.
InitSession ==
    /\ scanning = FALSE
    /\ resultText = <<>>
    /\ errorMsg = NULL
    /\ hasTorch = FALSE
    /\ torchOn = FALSE
    /\ controls = 0
    /\ stream = 0
    /\ devices = <<>>
    /\ selectedDeviceId = NULL
    /\ srcObject = 0
    /\ hidden = FALSE
    /\ subscribed = TRUE
    /\ acq = [i \in Sessions |-> "none"]
    /\ ctlStops = [i \in Sessions |-> 0]
    /\ trackStops = [i \in Sessions |-> 0]
    /\ torchCap = [i \in Sessions |-> FALSE]
    /\ torchPending = 0
    /\ refreshListing = 0
    /\ refreshFallback = 0
    /\ initPc = "done"
    /\ destroyed = FALSE
    /\ lastCall = "none"
    /\ lastEvent = "other"

NextSession ==
    \/ StartScan
    \/ StopScan
    \/ \E i \in Sessions, cap \in BOOLEAN : AcquireOk(i, cap)
    \/ \E i \in Sessions, name \in ErrorNames : AcquireFail(i, name)
    \/ \E i \in Sessions, payload \in Payloads : DecodeResult(i, payload)
    \/ \E i \in Sessions, name \in ErrorNames : DecodeError(i, name)
    \/ ToggleTorch
    \/ TorchApplyOk
    \/ TorchApplyFail
    \/ RefreshFail(FALSE, FALSE)

SpecSession == InitSession /\ [][NextSession]_vars

\* ------------------------------------------------------------------ claims

\* Stream i is open: it was acquired and no stop() reached its tracks.
Open(i) == acq[i] = "open" /\ trackStops[i] = 0
OpenStreams == {i \in Sessions : Open(i)}
LiveLoops == {i \in Sessions : LoopLive(i)}
NonePending == \A i \in Sessions : acq[i] # "pending"

\* C1: at most one media stream is open at any instant, for every sequence
\* of startScan/stopScan calls (a new stream is opened only after the tracks
\* of every earlier stream were stopped).
C1_AtMostOneStreamOpen == Cardinality(OpenStreams) <= 1

\* C2: when every acquisition has resolved and the last call was stopScan,
\* every stream that was opened has been released exactly once.
C2_ReleasedExactlyOnce ==
    (lastCall \in {"stopScan", "hiddenStop"} /\ NonePending)
        => \A i \in Sessions : acq[i] = "open" => trackStops[i] = 1

\* C3: scanning is true iff exactly one stream is open with a decode loop
\* attached to it; in particular no stream is open and no loop delivers
\* events while scanning is false.  The time an acquisition is pending is
\* left out of the left-to-right direction, so the statement checked here is
\* implied by the claim.
C3_ScanningIffOneStream ==
    /\ (scanning /\ NonePending) =>
           (Cardinality(OpenStreams) = 1 /\ OpenStreams \subseteq LiveLoops)
    /\ ~scanning => (OpenStreams = {} /\ LiveLoops = {})

\* C4: torchOn implies hasTorch in every reachable state.
C4_TorchOnImpliesHasTorch == torchOn => hasTorch

\* C5: stopScan is idempotent: in every reachable state a second stopScan
\* right after a first one changes nothing (no further controls.stop(), no
\* further track.stop()), and stopScan before any startScan releases nothing.
C5_StopScanIdempotent ==
    LET once == stopScan(Cur)
        twice == stopScan(once)
    IN  /\ twice = once
        /\ Started = {} => (once.trackStops = trackStops /\ once.ctlStops = ctlStops)

\* C5 witness: stopScan has stopped the controls and the tracks of a session.
C5_Witness ==
    /\ lastCall = "stopScan"
    /\ \E i \in Sessions : ctlStops[i] = 1 /\ trackStops[i] = 1

\* r is p without its leading and trailing whitespace.
IsTrimOf(r, p) ==
    \E a, b \in 0..Len(p) :
        /\ a + b <= Len(p)
        /\ r = SubSeq(p, a + 1, Len(p) - b)
        /\ \A k \in 1..a : IsWs(p[k])
        /\ \A k \in (Len(p) - b + 1)..Len(p) : IsWs(p[k])
        /\ r # <<>> => (~IsWs(r[1]) /\ ~IsWs(r[Len(r)]))

\* C6: when the decode loop of a scanning session delivers a result, on
\* return resultText is the trimmed payload, scanning is false, errorMsg is
\* null, the stream's tracks are released and the loop's controls stopped.
C6_ResultStopsSession ==
    [][\A i \in Sessions, payload \in Payloads :
          (scanning /\ DecodeResult(i, payload)) =>
              /\ IsTrimOf(resultText', payload)
              /\ ~scanning'
              /\ errorMsg' = NULL
              /\ trackStops'[i] > 0
              /\ ctlStops'[i] > 0]_vars

\* The message of each classified category.
CategoryMessage ==
    [name \in ClassifiedNames |->
        IF name = "NotAllowedError" THEN MsgNotAllowed
        ELSE IF name = "NotFoundError" THEN MsgNotFound
        ELSE IF name = "NotReadableError" THEN MsgNotReadable
        ELSE IF name = "OverconstrainedError" THEN MsgOverconstrained
        ELSE MsgSecurity]

\* C7: when the decode loop delivers a classified error, errorMsg is that
\* category's message, scanning is false and the stream's tracks are released.
C7_ClassifiedErrorEndsSession ==
    [][\A i \in Sessions, name \in ErrorNames \cap ClassifiedNames :
          DecodeError(i, name) =>
              /\ errorMsg' = CategoryMessage[name]
              /\ ~scanning'
              /\ trackStops'[i] > 0]_vars

\* C8: when the decode loop of a scanning session delivers an unclassified
\* error, scanning stays true, errorMsg stays null, resultText is unchanged,
\* no track and no controls are stopped.
C8_TransientErrorKeepsScanning ==
    [][\A i \in Sessions, name \in ErrorNames \ ClassifiedNames :
          (scanning /\ DecodeError(i, name)) =>
              /\ scanning'
              /\ errorMsg' = NULL
              /\ resultText' = resultText
              /\ trackStops' = trackStops
              /\ ctlStops' = ctlStops
              /\ acq' = acq]_vars

\* C8 witness: a scanning session with its stream open and its loop attached
\* has just been delivered a transient error.
C8_Witness ==
    /\ lastEvent = "transient"
    /\ scanning
    /\ \E i \in Sessions : Open(i) /\ LoopLive(i) /\ controls = i

\* C9: toggleTorch with hasTorch false changes nothing; with hasTorch true
\* it negates torchOn and the flip stands when applying the constraint
\* succeeds; when applying fails hasTorch and torchOn are both false.
C9_ToggleTorch ==
    [][/\ ToggleTorch =>
              IF hasTorch
              THEN torchOn' = ~torchOn /\ hasTorch'
              ELSE UNCHANGED <<sessVars, devVars, torchPending>>
       /\ TorchApplyOk => UNCHANGED <<torchOn, hasTorch>>
       /\ TorchApplyFail => (~hasTorch' /\ ~torchOn')]_vars

\* C9 witness: toggleTorch has switched the torch on and its
\* applyConstraints call is pending.
C9_Witness == hasTorch /\ torchOn /\ torchPending > 0

\* C10: a change to hidden while scanning ends in Stopped with the tracks
\* released, and they stay released until the next startScan.
C10_HiddenStopStaysReleased ==
    lastCall = "hiddenStop" => (~scanning /\ OpenStreams = {})

\* C11: when the acquisition started by startScan fails, scanning becomes
\* false and errorMsg is the classified category's message, or the generic
\* start-failure message for an unclassified error.
C11_AcquireFailLeavesScanning ==
    [][\A i \in Sessions, name \in ErrorNames :
          AcquireFail(i, name) =>
              /\ ~scanning'
              /\ errorMsg' = IF name \in ClassifiedNames
                             THEN CategoryMessage[name] ELSE MsgStartFailed]_vars

\* C11 witness: an acquisition has failed with an unclassified error.
C11_Witness ==
    /\ ~scanning
    /\ errorMsg = MsgStartFailed
    /\ \E i \in Sessions : acq[i] = "failed"

\* C12: onDeviceChange(id) sets the selected device to id; if the session is
\* scanning it stops it (scanning false, stream released, loop cancelled)
\* and starts no acquisition; if the session is not scanning, nothing but
\* the selected device changes.
C12_OnDeviceChange ==
    [][\A id \in DeviceIds :
          OnDeviceChange(id) =>
              /\ selectedDeviceId' = IF id # "" THEN id ELSE NULL
              /\ acq' = acq
              /\ IF scanning
                 THEN ~scanning' /\ OpenStreams' = {} /\ LiveLoops' = {}
                 ELSE UNCHANGED <<sessVars, devices>>]_vars

\* C13: once a result or a classified error of a session has been handled,
\* no later invocation of that session's decode callback changes resultText,
\* errorMsg, scanning, the torch flags or the controls and stream
\* references.  Stated for the only session started so far and for the
\* invocation that follows the terminal event.
C13_FirstTerminalEventOnly ==
    [][(/\ lastEvent = "terminal"
        /\ Started = {1}
        /\ \/ \E payload \in Payloads : DecodeResult(1, payload)
           \/ \E name \in ErrorNames : DecodeError(1, name))
        => UNCHANGED <<resultText, errorMsg, scanning, hasTorch, torchOn,
                       controls, stream>>]_vars

\* C14: after stopScan has returned (and until the next startScan) no decode
\* loop of an earlier startScan is able to deliver events, a loop that
\* becomes attached from an acquisition begun before the stop included.
C14_StopScanCancelsEveryLoop ==
    lastCall \in {"stopScan", "hiddenStop"} => LiveLoops = {}

\* C15: after a stop followed by a new startScan, the events of an earlier
\* session (its acquisition completing or failing, its decode callbacks)
\* change neither scanning, errorMsg nor resultText, do not release the
\* newest session's stream, and leave in controls no handle but that of the
\* newest session's loop.
C15_StaleEventsIgnored ==
    [][\A i \in Sessions :
          (/\ lastCall = "startAfterStop"
           /\ i < Cardinality(Started)
           /\ \/ \E cap \in BOOLEAN : AcquireOk(i, cap)
              \/ \E name \in ErrorNames : AcquireFail(i, name)
              \/ \E payload \in Payloads : DecodeResult(i, payload)
              \/ \E name \in ErrorNames : DecodeError(i, name))
          => /\ UNCHANGED <<scanning, errorMsg, resultText>>
             /\ trackStops'[Cardinality(Started)] = trackStops[Cardinality(Started)]
             /\ controls' \in {0, Cardinality(Started)}]_vars

\* C16: a device refresh selects the first listed device only if no device
\* was selected before; a selection already made is left unchanged.
C16_RefreshKeepsSelection ==
    [][(\/ \E init \in BOOLEAN, list \in PrimaryLists, fb \in BOOLEAN :
              RefreshListed(init, list, fb)
        \/ \E init \in BOOLEAN, all \in AllDeviceLists :
              RefreshFallbackListed(init, all))
        => selectedDeviceId' = IF selectedDeviceId # NULL
                               THEN selectedDeviceId ELSE FirstId(devices')]_vars

\* C17: a device refresh that fails while the session is scanning leaves
\* scanning true, the stream open and its loop attached; a refresh that
\* completes, failing or not, while the session is not scanning leaves
\* scanning false and opens no stream.
C17_RefreshLeavesSession ==
    [][/\ (scanning /\ \E init \in BOOLEAN, inFallback \in BOOLEAN :
                          RefreshFail(init, inFallback))
            => (scanning' /\ OpenStreams' = OpenStreams /\ LiveLoops' = LiveLoops)
       /\ (/\ ~scanning
           /\ \/ \E init \in BOOLEAN, inFallback \in BOOLEAN :
                    RefreshFail(init, inFallback)
              \/ \E init \in BOOLEAN, list \in PrimaryLists, fb \in BOOLEAN :
                    RefreshListed(init, list, fb)
              \/ \E init \in BOOLEAN, all \in AllDeviceLists :
                    RefreshFallbackListed(init, all))
            => (~scanning' /\ OpenStreams' \subseteq OpenStreams)]_vars

\* C18: once ngOnDestroy has run, the visibility handler is not subscribed,
\* whatever the interleaving of the teardown with ngAfterViewInit.
C18_UnsubscribedAfterDestroy == destroyed => ~subscribed

\* C19: when stopScan returns, torchOn and hasTorch are both false, and
\* toggleTorch called after a stop while no stream is open changes no state.
C19_StopScanClearsTorch ==
    [][/\ StopScan => (~torchOn' /\ ~hasTorch')
       /\ (/\ lastCall \in {"stopScan", "hiddenStop"}
           /\ OpenStreams = {}
           /\ ToggleTorch)
            => UNCHANGED <<sessVars, torchPending>>]_vars

\* C20: a non-empty resultText and a non-null errorMsg never hold at the
\* same time.
C20_AtMostOneOutcome == ~(resultText # <<>> /\ errorMsg # NULL)

====
